---- MODULE Spec2Model ----
(***************************************************************************)
(* Model of specio/serialization/csmf.py: the CSMF collection codec        *)
(* (csmf_data_to_buffer, save_csmf_file, load_csmf_file), the collection's *)
(* equality (CSMF_Data.__eq__) and its derived identifier (shortname).     *)
(*                                                                         *)
(* Numbers.  test_colors entries are real numbers; they are kept as exact  *)
(* fixed-point integers counted in ticks of 5e-9, so that 1.0 is Scale     *)
(* ticks and the tolerance 1e-8 of the encoder is Tol ticks.               *)
(***************************************************************************)
EXTENDS Integers, Sequences, FiniteSets, TLC

VARIABLES
    ml,           \* the in-memory collection handed to save_csmf_file
    fs,           \* the target file <name>.csmf: NoFile, or its byte content
    fs0,          \* the target file as it was before save_csmf_file was called
    pc,           \* position of save_csmf_file
    buffer,       \* save_csmf_file's local `buffer` (the CSFM_File message)
    data_string,  \* save_csmf_file's local `data_string`
    raised,       \* the exception that reached the caller of the last call
    loaded,       \* the collection returned by the last load_csmf_file
    other,        \* a second collection (right operand of ==)
    eqResult,     \* the result of the last `a == b`
    snResult      \* the result of the last access to ml.shortname

vars == <<ml, fs, fs0, pc, buffer, data_string, raised, loaded, other,
          eqResult, snResult>>

-----------------------------------------------------------------------------
(* Bounds of the model *)

MaxRows == 2      \* most rows of a test_colors matrix
MaxLen == 2       \* most entries of order / measurements

-----------------------------------------------------------------------------
(* Python values *)

None == "<None>"                       \* Python's None where a str may stand
NoValue == [none |-> TRUE]             \* Python's None where an object may stand
NoFile == [exists |-> FALSE]           \* the path does not exist
File(bytes) == [exists |-> TRUE, bytes |-> bytes]

Range(s) == {s[i] : i \in DOMAIN s}

SeqsUpTo(S, n) == UNION {[1..k -> S] : k \in 0..n}

-----------------------------------------------------------------------------
(* Fixed-point numbers *)

Scale == 2 * 10^8                      \* ticks in 1.0
Tol == Scale \div 10^8                 \* 1e-8 in ticks
Eps == Tol - 1                         \* a positive amount below 1e-8 (5e-9)

Num(n) == n * Scale                    \* the number n
Half == Scale \div 2

Abs(x) == IF x < 0 THEN -x ELSE x

\* np.modf(x)[0]: the fractional part, carrying the sign of x
ModfFrac(x) == IF x >= 0 THEN x % Scale ELSE -((-x) % Scale)

\* int(x) of a Python float: truncation toward zero
PyInt(x) == IF x >= 0 THEN x \div Scale ELSE -((-x) \div Scale)

\* distance of x to the nearest integer (to its rounded value)
DistToRound(x) ==
    LET r == Abs(x) % Scale IN IF r <= Scale - r THEN r ELSE Scale - r

SetMax(S) == CHOOSE m \in S : \A y \in S : y <= m
SetMin(S) == CHOOSE m \in S : \A y \in S : m <= y

-----------------------------------------------------------------------------
(* numpy arrays of at most two dimensions.  An array is                   *)
(* [dtype, shape, rows]: a 2-D array of shape <<R, C>> holds R rows of C  *)
(* entries; a 1-D array of shape <<k>> holds its k entries as one row.    *)

Array2(dtype, rows, ncols) ==
    [dtype |-> dtype, shape |-> <<Len(rows), ncols>>, rows |-> rows]

Array1(dtype, data) ==
    [dtype |-> dtype, shape |-> <<Len(data)>>, rows |-> <<data>>]

Entries(a) == UNION {Range(a.rows[i]) : i \in DOMAIN a.rows}

Size(a) == IF Len(a.shape) = 1 THEN a.shape[1] ELSE a.shape[1] * a.shape[2]

\* shape padded on the left to two dimensions, as broadcasting does
Shape2(a) == IF Len(a.shape) = 1 THEN <<1, a.shape[1]>> ELSE a.shape

Broadcastable(a, b) ==
    \A d \in 1..2 :
        \/ Shape2(a)[d] = Shape2(b)[d]
        \/ Shape2(a)[d] = 1
        \/ Shape2(b)[d] = 1

BroadcastDim(a, b, d) ==
    IF Shape2(a)[d] = 1 THEN Shape2(b)[d] ELSE Shape2(a)[d]

\* entry (i, j) of a once broadcast: a dimension of extent 1 is repeated
At(a, i, j) ==
    a.rows[IF Shape2(a)[1] = 1 THEN 1 ELSE i][IF Shape2(a)[2] = 1 THEN 1 ELSE j]


\* np.all(a == b).  Arrays whose shapes do not broadcast: numpy >= 1.25
\* raises ValueError out of ==, older releases answer False (legacy).
NpAllEq(a, b, legacy) ==
    IF ~Broadcastable(a, b)
    THEN IF legacy THEN "False" ELSE "ValueError"
    ELSE IF \A i \in 1..BroadcastDim(a, b, 1) :
                \A j \in 1..BroadcastDim(a, b, 2) : At(a, i, j) = At(b, i, j)
         THEN "True" ELSE "False"

-----------------------------------------------------------------------------
(* CSMF_Metadata *)

DefaultSoftware == "colour-specio"

CSMF_Metadata(notes, author, location, software) ==
    [notes |-> notes, author |-> author, location |-> location,
     software |-> software]

DefaultMetadata == CSMF_Metadata(None, None, None, DefaultSoftware)

MetaFields == {"notes", "author", "location", "software"}

\* truth value of an Optional[str] in `if x:`
Truthy(x) == x # None /\ x # ""

-----------------------------------------------------------------------------
(* SPD measurements and their codec (specio.common / specio.serialization  *)
(* .measurements): a measurement holds its spectral samples and the        *)
(* quantities derived from them.                                           *)

Spds == {<<1, 2>>, <<2, 1>>, <<1, 1>>}

SeqSum(s) == IF Len(s) = 0 THEN 0 ELSE s[1] + (IF Len(s) = 1 THEN 0 ELSE s[2])

Derive(spd) == SeqSum(spd)

SPDMeasurement(spd) == [spd |-> spd, XYZ |-> Derive(spd)]

\* an object that is no SPDMeasurement: encoding it raises
Malformed == [spd |-> <<>>, XYZ |-> -1]

IsError(x) == "err" \in DOMAIN x
Error(kind) == [err |-> kind]

spd_measurement_to_proto(m) ==
    IF m = Malformed THEN Error("AttributeError")
    ELSE [samples |-> m.spd, xyz |-> m.XYZ]

spd_measurement_from_bytes(mbuf, recompute) ==
    [spd |-> mbuf.samples,
     XYZ |-> IF recompute THEN Derive(mbuf.samples) ELSE mbuf.xyz]

-----------------------------------------------------------------------------
(* The wire message CSFM_File and its framing *)

Absent == "<absent>"                   \* a string field that was never set

CSFM_File(ms, notes, author, location, software, order, tcs) ==
    [spd_measurements |-> ms, notes |-> notes, author |-> author,
     location |-> location, software |-> software, order |-> order,
     test_colors |-> tcs]

TestColor(c, f) == [c |-> c, f |-> f]

\* reading a string field of a message: unset fields read as ""
GetStr(v) == IF v = Absent THEN "" ELSE v

\* One field of a serialized message: its tag and its payload, which is a
\* string, a packed list of numbers, or the fields of a sub-message.
StrEntry(tag, v) == [tag |-> tag, s |-> v, n |-> <<>>, sub |-> <<>>]
NumEntry(tag, ns) == [tag |-> tag, s |-> "", n |-> ns, sub |-> <<>>]
SubEntry(tag, es) == [tag |-> tag, s |-> "", n |-> <<>>, sub |-> es]

\* proto3 writes neither unset nor empty strings, nor empty repeated fields
StrField(tag, v) == IF v = Absent \/ v = "" THEN <<>> ELSE <<StrEntry(tag, v)>>

Packed(tag, ns) == IF Len(ns) = 0 THEN <<>> ELSE <<NumEntry(tag, ns)>>

MeasurementFields(mbuf) ==
    Packed("samples", mbuf.samples) \o <<NumEntry("xyz", <<mbuf.xyz>>)>>

TestColorFields(tc) == Packed("c", tc.c) \o Packed("f", tc.f)

\* buffer.SerializeToString(): the set fields, in field order
SerializeToString(m) ==
    [i \in DOMAIN m.spd_measurements |->
        SubEntry("spd_measurements", MeasurementFields(m.spd_measurements[i]))]
    \o StrField("notes", m.notes)
    \o StrField("author", m.author)
    \o StrField("location", m.location)
    \o StrField("software", m.software)
    \o Packed("order", m.order)
    \o [i \in DOMAIN m.test_colors |->
        SubEntry("test_colors", TestColorFields(m.test_colors[i]))]

FieldsOf(bytes, tag) ==
    LET Has(e) == e.tag = tag IN SelectSeq(bytes, Has)

\* a packed numeric field: absent reads as the empty list
GetNums(bytes, tag) ==
    LET es == FieldsOf(bytes, tag)
    IN IF Len(es) = 0 THEN <<>> ELSE es[Len(es)].n

\* a string field: absent stays unset
GetField(bytes, tag) ==
    LET es == FieldsOf(bytes, tag)
    IN IF Len(es) = 0 THEN Absent ELSE es[Len(es)].s

ParseMeasurement(es) ==
    [samples |-> GetNums(es, "samples"), xyz |-> GetNums(es, "xyz")[1]]

\* pbuf.ParseFromString(data_string)
ParseFromString(bytes) ==
    LET ms == FieldsOf(bytes, "spd_measurements")
        tcs == FieldsOf(bytes, "test_colors")
    IN CSFM_File([i \in DOMAIN ms |-> ParseMeasurement(ms[i].sub)],
                 GetField(bytes, "notes"),
                 GetField(bytes, "author"),
                 GetField(bytes, "location"),
                 GetField(bytes, "software"),
                 GetNums(bytes, "order"),
                 [i \in DOMAIN tcs |->
                     TestColor(GetNums(tcs[i].sub, "c"),
                               GetNums(tcs[i].sub, "f"))])

-----------------------------------------------------------------------------
(* CSMF_Data *)

CSMF_Data(test_colors, order, measurements, metadata) ==
    [test_colors |-> test_colors, order |-> order,
     measurements |-> measurements, metadata |-> metadata]

\* order is an Iterable[int]: a Python list or a 1-D ndarray
PyList(data) == [kind |-> "list", data |-> data]
NdArray(data) == [kind |-> "ndarray", data |-> data]

-----------------------------------------------------------------------------
(* csmf_data_to_buffer *)

\* np.ptp(a): max - min over all entries; a zero-size array has no maximum
Ptp(a) == SetMax(Entries(a)) - SetMin(Entries(a))

\* the mode decided from the fractional parts alone
IntMode_NoRange(testColors) ==
    \A x \in Entries(testColors) : ModfFrac(x) < Tol

\* line 119: the numeric mode of the whole matrix
IntMode(testColors) ==
    /\ Ptp(testColors) > Scale
    /\ \A x \in Entries(testColors) : ModfFrac(x) < Tol

IntRow(color) == TestColor([j \in DOMAIN color |-> PyInt(color[j])], <<>>)
FloatRow(color) == TestColor(<<>>, color)

EncodeTestColors(testColors) ==
    IF IntMode(testColors)
    THEN [i \in DOMAIN testColors.rows |-> IntRow(testColors.rows[i])]
    ELSE [i \in DOMAIN testColors.rows |-> FloatRow(testColors.rows[i])]

\* a metadata field written whenever it is not None
EncodeMeta_NotNone(v) == IF v # None THEN v ELSE Absent

\* lines 101-111: a metadata field is written only if truthy
EncodeMeta(v) == IF Truthy(v) THEN v ELSE Absent

\* measurements inserted at the front of the repeated field
EncodeMeasurements_Reversed(ms) ==
    [i \in DOMAIN ms |-> spd_measurement_to_proto(ms[Len(ms) + 1 - i])]

EncodeMeasurements(ms) == [i \in DOMAIN ms |-> spd_measurement_to_proto(ms[i])]

csmf_data_to_buffer(c) ==
    IF \E i \in DOMAIN c.measurements :
            IsError(spd_measurement_to_proto(c.measurements[i]))
    THEN Error("AttributeError")
    ELSE IF c.test_colors # NoValue /\ Size(c.test_colors) = 0
    THEN Error("ValueError")
    ELSE CSFM_File(EncodeMeasurements(c.measurements),
                   EncodeMeta(c.metadata.notes),
                   EncodeMeta(c.metadata.author),
                   EncodeMeta(c.metadata.location),
                   EncodeMeta(c.metadata.software),
                   IF c.order # NoValue THEN c.order.data ELSE <<>>,
                   IF c.test_colors # NoValue
                   THEN EncodeTestColors(c.test_colors) ELSE <<>>)

-----------------------------------------------------------------------------
(* load_csmf_file *)

DecodeRow(color) ==
    IF Len(color.f) = 0
    THEN [j \in DOMAIN color.c |-> Num(color.c[j])]
    ELSE color.f

\* np.array(tcs): no rows give the 1-D empty array; the element type is
\* integer only if every row came from the integer field
NpArrayOfRows(wire) ==
    LET rows == [i \in DOMAIN wire |-> DecodeRow(wire[i])]
        dtype == IF \A i \in DOMAIN wire : Len(wire[i].f) = 0
                 THEN "int" ELSE "float"
    IN IF Len(rows) = 0 THEN Array1("float", <<>>)
       ELSE Array2(dtype, rows, Len(rows[1]))

DecodeCollection(pbuf, recompute) ==
    CSMF_Data(NpArrayOfRows(pbuf.test_colors),
              NdArray(pbuf.order),
              [i \in DOMAIN pbuf.spd_measurements |->
                  spd_measurement_from_bytes(pbuf.spd_measurements[i], recompute)],
              CSMF_Metadata(GetStr(pbuf.notes), GetStr(pbuf.author),
                            GetStr(pbuf.location), GetStr(pbuf.software)))

load_csmf_file(bytes, recompute) ==
    DecodeCollection(ParseFromString(bytes), recompute)

-----------------------------------------------------------------------------
(* CSMF_Data.__eq__ *)

\* self.order == value.order: two Python lists compare as lists, anything
\* else compares as arrays
OrderAllEq(x, y, legacy) ==
    IF x.kind = "list" /\ y.kind = "list"
    THEN IF x.data = y.data THEN "True" ELSE "False"
    ELSE NpAllEq(Array1("int", x.data), Array1("int", y.data), legacy)

MetadataEq(x, y) == IF x = y THEN "True" ELSE "False"

\* all((...)): the four comparisons are evaluated first, then folded
AllOf(parts) ==
    IF \E i \in DOMAIN parts : parts[i] = "ValueError" THEN "ValueError"
    ELSE IF \A i \in DOMAIN parts : parts[i] = "True" THEN "True"
    ELSE "False"

CSMF_Data_eq(a, b, legacy) ==
    IF b = NoValue THEN "False"
    ELSE AllOf(<<NpAllEq(a.test_colors, b.test_colors, legacy),
                 OrderAllEq(a.order, b.order, legacy),
                 NpAllEq(Array1("object", a.measurements),
                         Array1("object", b.measurements), legacy),
                 MetadataEq(a.metadata, b.metadata)>>)

-----------------------------------------------------------------------------
(* CSMF_Data.shortname *)

SpdsOf(ms) == [i \in DOMAIN ms |-> ms[i].spd]

\* np.ascontiguousarray(MultiSpectralDistributions(spds).values).data:
\* one row per wavelength, one column per distribution, in row-major order
ValuesBuffer(spds) ==
    LET n == Len(spds)
        w == IF n = 0 THEN 0 ELSE Len(spds[1])
    IN [k \in 1..(w * n) |-> spds[((k - 1) % n) + 1][((k - 1) \div n) + 1]]

RECURSIVE HashFold(_, _)
HashFold(buf, h) ==
    IF Len(buf) = 0 THEN h
    ELSE HashFold(Tail(buf), (h * 31 + Head(buf)) % 65521)

\* xxhash.xxh32_hexdigest(buffer): a digest string
xxh32_hexdigest(buf) == ToString(HashFold(buf, Len(buf) + 1))

\* the digest used only when notes is None
shortname_NoneOnly(c) ==
    IF c.metadata.notes = None
    THEN xxh32_hexdigest(ValuesBuffer(SpdsOf(c.measurements)))
    ELSE c.metadata.notes

shortname(c) ==
    IF c.metadata.notes = None \/ c.metadata.notes = ""
    THEN xxh32_hexdigest(ValuesBuffer(SpdsOf(c.measurements)))
    ELSE c.metadata.notes

-----------------------------------------------------------------------------
(* Inputs *)

\* entries of a floating-point matrix: 0, 3, -2.5, 2 + 5e-9, 3 - 5e-9
FloatVals == {Num(0), Num(3), -(Num(2) + Half), Num(2) + Eps, Num(3) - Eps}
\* entries of an integer matrix
IntVals == {Num(0), Num(1), Num(3)}

Matrices(dtype, V) ==
    {Array2(dtype, rows, 2) : rows \in SeqsUpTo(V \X V, MaxRows)}

\* every matrix, the zero-row ones included: np.empty((0, 2)), np.array([])
AllTestColors ==
    Matrices("float", FloatVals) \cup Matrices("int", IntVals)
    \cup {Array1("float", <<>>)}

BaseColors == Array2("int", << <<Num(0), Num(1)>>, <<Num(3), Num(0)>> >>, 2)
UnitColors == Array2("float", << <<Num(0), Num(1)>> >>, 2)

Strs == {"", "Session A"}
AllMetadata ==
    {CSMF_Metadata(n, a, l, s) :
        n \in Strs \cup {None}, a \in Strs \cup {None},
        l \in Strs \cup {None}, s \in {None, "", DefaultSoftware}}

FullMetadata == CSMF_Metadata("Session A", "", "Session A", DefaultSoftware)

AllMeasurements == {SPDMeasurement(spd) : spd \in Spds}
MeasurementLists == SeqsUpTo(AllMeasurements, MaxLen)

OrderVals == {0, 1, 2}
Orders ==
    {PyList(o) : o \in SeqsUpTo(OrderVals, MaxLen)}
    \cup {NdArray(o) : o \in SeqsUpTo(OrderVals, MaxLen)}

BaseMeasurements == <<SPDMeasurement(<<1, 2>>)>>
BaseOrder == PyList(<<0>>)

\* collections that differ in one part at a time
CodecInputs ==
    {CSMF_Data(t, BaseOrder, BaseMeasurements, FullMetadata) :
        t \in AllTestColors}
    \cup {CSMF_Data(BaseColors, BaseOrder, BaseMeasurements, m) :
        m \in AllMetadata}
    \cup {CSMF_Data(t, o, ms, FullMetadata) :
        t \in {BaseColors, UnitColors}, o \in Orders, ms \in MeasurementLists}
    \cup {CSMF_Data(BaseColors, BaseOrder, ms, FullMetadata) :
        ms \in {<<Malformed>>, BaseMeasurements \o <<Malformed>>}}

\* collections saved over a file that exists already
OverwriteInputs ==
    {CSMF_Data(t, BaseOrder, ms, DefaultMetadata) :
        t \in {BaseColors, UnitColors, Array2("float", <<>>, 2)},
        ms \in {<<>>, BaseMeasurements, BaseMeasurements \o <<Malformed>>}}

OldBytes ==
    SerializeToString(csmf_data_to_buffer(
        CSMF_Data(UnitColors, NdArray(<<1, 0>>), <<>>, DefaultMetadata)))

-----------------------------------------------------------------------------
(* save_csmf_file, step by step *)

\* the file opened for writing before the message is built
SaveEncode_OpenFirst ==
    /\ pc = "idle"
    /\ fs' = File(<<>>)
    /\ LET b == csmf_data_to_buffer(ml) IN
        IF IsError(b)
        THEN /\ pc' = "raised"
             /\ raised' = b.err
             /\ UNCHANGED buffer
        ELSE /\ pc' = "encoded"
             /\ buffer' = b
             /\ UNCHANGED raised
    /\ UNCHANGED <<ml, fs0, data_string, loaded, other, eqResult, snResult>>

\* line 137: buffer = csmf_data_to_buffer(ml); an exception leaves the call
SaveEncode ==
    /\ pc = "idle"
    /\ LET b == csmf_data_to_buffer(ml) IN
        IF IsError(b)
        THEN /\ pc' = "raised"
             /\ raised' = b.err
             /\ UNCHANGED buffer
        ELSE /\ pc' = "encoded"
             /\ buffer' = b
             /\ UNCHANGED raised
    /\ UNCHANGED <<ml, fs, fs0, data_string, loaded, other, eqResult, snResult>>

\* line 138: data_string = buffer.SerializeToString()
SaveSerialize ==
    /\ pc = "encoded"
    /\ data_string' = SerializeToString(buffer)
    /\ pc' = "serialized"
    /\ UNCHANGED <<ml, fs, fs0, buffer, raised, loaded, other, eqResult,
                   snResult>>

\* line 145: open(file, "wb") creates the file or truncates it
SaveOpen ==
    /\ pc = "serialized"
    /\ fs' = File(<<>>)
    /\ pc' = "open"
    /\ UNCHANGED <<ml, fs0, buffer, data_string, raised, loaded, other,
                   eqResult, snResult>>

\* lines 146-148: f.write(data_string), close, return
SaveWrite ==
    /\ pc = "open"
    /\ fs' = File(data_string)
    /\ pc' = "done"
    /\ UNCHANGED <<ml, fs0, buffer, data_string, raised, loaded, other,
                   eqResult, snResult>>

-----------------------------------------------------------------------------
(* load_csmf_file and == on its result *)

Loaded(c, recompute, after) ==
    [data |-> c, recompute |-> recompute, after |-> after]

IsLoaded(x) == "data" \in DOMAIN x

LoadFile(recompute) ==
    /\ pc \in {"idle", "raised", "done"}
    /\ loaded' = IF fs = NoFile THEN Error("FileNotFoundError")
                 ELSE Loaded(load_csmf_file(fs.bytes, recompute), recompute, pc)
    /\ eqResult' = "none"
    /\ UNCHANGED <<ml, fs, fs0, pc, buffer, data_string, raised, other,
                   snResult>>

Load == \E recompute \in BOOLEAN : LoadFile(recompute)

\* ml == loaded
CompareLoaded ==
    /\ IsLoaded(loaded)
    /\ eqResult = "none"
    /\ \E legacy \in BOOLEAN : eqResult' = CSMF_Data_eq(ml, loaded.data, legacy)
    /\ UNCHANGED <<ml, fs, fs0, pc, buffer, data_string, raised, loaded, other,
                   snResult>>

Init ==
    /\ \/ ml \in CodecInputs /\ fs = NoFile
       \/ ml \in OverwriteInputs /\ fs = File(OldBytes)
    /\ fs0 = fs
    /\ pc = "idle"
    /\ buffer = NoValue
    /\ data_string = <<>>
    /\ raised = "none"
    /\ loaded = NoValue
    /\ other = NoValue
    /\ eqResult = "none"
    /\ snResult = NoValue

Next ==
    \/ SaveEncode
    \/ SaveSerialize
    \/ SaveOpen
    \/ SaveWrite
    \/ Load
    \/ CompareLoaded

Spec == Init /\ [][Next]_vars

-----------------------------------------------------------------------------
(* Properties of the codec *)

\* save_csmf_file returned and load_csmf_file then read the file it wrote
RoundTripped == pc = "done" /\ IsLoaded(loaded) /\ loaded.after = "done"

\* the same, load_csmf_file called as load_csmf_file(path)
RoundTrippedDefault == RoundTripped /\ ~loaded.recompute

Encoded == pc \in {"encoded", "serialized", "open", "done"}

WrittenToC(tc) == Len(tc.c) > 0
WrittenToF(tc) == Len(tc.f) > 0

\* every entry is within 1e-8 of its rounded value
NearIntegers(a) == \A x \in Entries(a) : DistToRound(x) < Tol

\* a floating-point matrix that the encoder writes as integers
CollapsesToInt(a) == a.dtype = "float" /\ Size(a) > 0 /\ IntMode(a)

\* C1: a saved and reloaded collection compares equal to the original under
\* ==, for every collection whose test_colors is not a floating-point matrix
\* written as integers, the default metadata (notes = None) included.
C1_RoundTripEqual ==
    (RoundTrippedDefault /\ eqResult # "none"
        /\ ~CollapsesToInt(ml.test_colors))
    => eqResult = "True"

\* C2: the rows of the message are all in c, none in f, exactly when every
\* entry of the matrix is within 1e-8 of its rounded value and max - min > 1;
\* otherwise all rows are in f and none in c.
C2_ModeRule ==
    Encoded =>
        LET rows == buffer.test_colors
            ints == NearIntegers(ml.test_colors)
                    /\ Ptp(ml.test_colors) > Scale
        IN /\ Len(rows) = Len(ml.test_colors.rows)
           /\ ints => \A i \in DOMAIN rows :
                        WrittenToC(rows[i]) /\ ~WrittenToF(rows[i])
           /\ ~ints => \A i \in DOMAIN rows :
                        WrittenToF(rows[i]) /\ ~WrittenToC(rows[i])

\* C3: a matrix written through the integer field comes back with the same
\* shape and numerically equal entries.
C3_IntModePreservesValues ==
    (RoundTripped /\ \A i \in DOMAIN buffer.test_colors :
                        WrittenToC(buffer.test_colors[i]))
    => /\ loaded.data.test_colors.shape = ml.test_colors.shape
       /\ loaded.data.test_colors.rows = ml.test_colors.rows

\* C4: a non-empty matrix whose range max - min is at most 1 is written
\* through the float field in every row, and c stays empty in every row.
C4_FloatFallback ==
    (Encoded /\ Size(ml.test_colors) > 0 /\ Ptp(ml.test_colors) <= Scale)
    => /\ Len(buffer.test_colors) = Len(ml.test_colors.rows)
       /\ \A i \in DOMAIN buffer.test_colors :
            /\ buffer.test_colors[i].f = ml.test_colors.rows[i]
            /\ buffer.test_colors[i].c = <<>>

C4_Witness ==
    /\ Encoded
    /\ ml.test_colors.dtype = "int"
    /\ Entries(ml.test_colors) = {Num(0), Num(1)}
    /\ Len(buffer.test_colors) = MaxRows
    /\ \A i \in DOMAIN buffer.test_colors : WrittenToF(buffer.test_colors[i])

\* C5: a metadata field that is None or "" is not written to the message nor
\* to the file and is loaded as ""; a non-empty field is loaded unchanged.
C5_MetadataOmission ==
    \A f \in MetaFields :
        /\ (Encoded /\ ~Truthy(ml.metadata[f])) => buffer[f] = Absent
        /\ (pc = "done" /\ ~Truthy(ml.metadata[f]))
                => Len(FieldsOf(fs.bytes, f)) = 0
        /\ RoundTripped =>
                loaded.data.metadata[f] =
                    IF Truthy(ml.metadata[f]) THEN ml.metadata[f] ELSE ""

C5_Witness ==
    /\ RoundTripped
    /\ ml.metadata.notes = None
    /\ loaded.data.metadata.notes = ""
    /\ ml.metadata.author = ""
    /\ loaded.data.metadata.author = ""
    /\ ml.metadata.location = "Session A"
    /\ loaded.data.metadata.location = "Session A"

\* C7: a saved and reloaded collection has order and measurements of the
\* same length with the same element at every position.
C7_OrderPreserved ==
    RoundTrippedDefault =>
        /\ loaded.data.order.data = ml.order.data
        /\ loaded.data.measurements = ml.measurements

C7_Witness ==
    /\ RoundTrippedDefault
    /\ Len(ml.measurements) = MaxLen
    /\ ml.measurements[1] # ml.measurements[MaxLen]
    /\ Len(ml.order.data) = MaxLen
    /\ ml.order.data[1] > ml.order.data[MaxLen]
    /\ loaded.data.order.data = ml.order.data

\* C9: when save_csmf_file raises, and at every point before it opens the
\* file, the target file is as it was before the call; the file's content
\* changes only to the completely serialized message.
C9_FailFast ==
    /\ pc \in {"idle", "raised", "encoded", "serialized"} => fs = fs0
    /\ pc = "done" => fs = File(SerializeToString(buffer))

C9_Witness ==
    /\ pc = "raised"
    /\ raised = "AttributeError"
    /\ fs0 = File(OldBytes)
    /\ fs = File(OldBytes)

WellFormed(c) == \A i \in DOMAIN c.measurements : c.measurements[i] # Malformed

\* C10: csmf_data_to_buffer raises on no well-formed collection, the one
\* with no measurements, no order and a zero-row matrix included.
C10_EncodeTotal == (WellFormed(ml) /\ pc # "idle") => pc # "raised"

-----------------------------------------------------------------------------
(* a == b on two collections built by the caller *)

EqColors ==
    {UnitColors, BaseColors,
     Array2("float", << <<Num(0), Num(1)>>, <<Num(0), Num(1)>> >>, 2),
     Array2("float", <<>>, 2),
     Array1("float", <<>>)}

EqSamples ==
    {CSMF_Data(t, BaseOrder, BaseMeasurements, FullMetadata) : t \in EqColors}
    \cup {CSMF_Data(BaseColors, o, BaseMeasurements, FullMetadata) :
            o \in Orders}
    \cup {CSMF_Data(BaseColors, BaseOrder, ms, FullMetadata) :
            ms \in MeasurementLists}
    \cup {CSMF_Data(BaseColors, BaseOrder, BaseMeasurements, m) :
            m \in {DefaultMetadata,
                   CSMF_Metadata("", "", "", DefaultSoftware)}}

\* ml == other
CompareOther ==
    /\ eqResult = "none"
    /\ \E legacy \in BOOLEAN : eqResult' = CSMF_Data_eq(ml, other, legacy)
    /\ UNCHANGED <<ml, fs, fs0, pc, buffer, data_string, raised, loaded, other,
                   snResult>>

InitEq ==
    /\ ml \in EqSamples
    /\ other \in EqSamples \cup {NoValue}
    /\ fs = NoFile
    /\ fs0 = NoFile
    /\ pc = "idle"
    /\ buffer = NoValue
    /\ data_string = <<>>
    /\ raised = "none"
    /\ loaded = NoValue
    /\ eqResult = "none"
    /\ snResult = NoValue

NextEq == CompareOther

SpecEq == InitEq /\ [][NextEq]_vars

\* same shape and equal entries, same length and equal entries, equal metadata
ValueEqual(a, b) ==
    /\ b # NoValue
    /\ a.test_colors.shape = b.test_colors.shape
    /\ a.test_colors.rows = b.test_colors.rows
    /\ a.order.data = b.order.data
    /\ a.measurements = b.measurements
    /\ a.metadata = b.metadata

\* C8: a == b is true exactly when test_colors, order and measurements have
\* the same shape or length and equal entries and the metadata are equal.
C8_ValueEquality ==
    eqResult # "none" => (eqResult = "True" <=> ValueEqual(ml, other))

-----------------------------------------------------------------------------
(* shortname under changes to the collection *)

\* ml.metadata.notes = v
SetNotes ==
    /\ \E v \in Strs \cup {None} :
        /\ v # ml.metadata.notes
        /\ ml' = [ml EXCEPT !.metadata.notes = v]
    /\ UNCHANGED <<fs, fs0, pc, buffer, data_string, raised, loaded, other,
                   eqResult, snResult>>

\* ml.metadata.author = v
SetAuthor ==
    /\ \E v \in {None, "Session A"} :
        /\ v # ml.metadata.author
        /\ ml' = [ml EXCEPT !.metadata.author = v]
    /\ UNCHANGED <<fs, fs0, pc, buffer, data_string, raised, loaded, other,
                   eqResult, snResult>>

\* ml.measurements = ml.measurements + [m]
AppendMeasurement ==
    /\ Len(ml.measurements) < MaxLen
    /\ \E m \in AllMeasurements :
        ml' = [ml EXCEPT !.measurements = Append(@, m)]
    /\ UNCHANGED <<fs, fs0, pc, buffer, data_string, raised, loaded, other,
                   eqResult, snResult>>

\* ml.measurements = ml.measurements[1:]
DropMeasurement ==
    /\ Len(ml.measurements) > 0
    /\ ml' = [ml EXCEPT !.measurements = Tail(@)]
    /\ UNCHANGED <<fs, fs0, pc, buffer, data_string, raised, loaded, other,
                   eqResult, snResult>>

\* ml.shortname, with the notes and spectral data it was read at
AccessShortname ==
    /\ snResult' = [val |-> shortname(ml), notes |-> ml.metadata.notes,
                    spds |-> SpdsOf(ml.measurements)]
    /\ UNCHANGED <<ml, fs, fs0, pc, buffer, data_string, raised, loaded, other,
                   eqResult>>

InitShort ==
    /\ ml = CSMF_Data(BaseColors, BaseOrder, <<>>, DefaultMetadata)
    /\ fs = NoFile
    /\ fs0 = NoFile
    /\ pc = "idle"
    /\ buffer = NoValue
    /\ data_string = <<>>
    /\ raised = "none"
    /\ loaded = NoValue
    /\ other = NoValue
    /\ eqResult = "none"
    /\ snResult = NoValue

NextShort ==
    \/ SetNotes
    \/ SetAuthor
    \/ AppendMeasurement
    \/ DropMeasurement
    \/ AccessShortname

SpecShort == InitShort /\ [][NextShort]_vars

\* C6: every access to shortname returns the notes when they are a
\* non-empty string, and otherwise the digest of the spectral samples of the
\* measurements as they are at that access, whatever was returned before.
C6_ShortnameDerived ==
    snResult # NoValue =>
        snResult.val =
            IF snResult.notes # None /\ snResult.notes # ""
            THEN snResult.notes
            ELSE xxh32_hexdigest(ValuesBuffer(snResult.spds))

C6_Witness ==
    /\ snResult # NoValue
    /\ snResult.notes = ""
    /\ Len(snResult.spds) = MaxLen
    /\ snResult.val = xxh32_hexdigest(ValuesBuffer(SpdsOf(ml.measurements)))
    /\ ml.metadata.author = "Session A"

=============================================================================
